---- MODULE Spec2Model ----
(***************************************************************************)
(* Model of the directory-walking scripts of lai4sr:                       *)
(*   scripts/lai_retrieval_planetscope.py, lai_retrieval_planetscope.py,   *)
(*   scripts/lai_retrieval_sentinel2.py           (LAI retrieval)          *)
(*   scripts/run_prosail_planetscope.py, run_prosail_planetscope.py,       *)
(*   run_prosail_sentinel2.py                     (LUT generation)         *)
(* and of get_parcel_statistics and masked_array_to_ndarray of             *)
(* scripts/parcel_statistics.py and download_data of get_sat_data.py,      *)
(* each with a specification of its own further below.                     *)
(* The file system below `path` is the state.  Names of the children of    *)
(* `path` are sequences of characters, scene stems are sequences of the    *)
(* '_'-separated tokens of the stem, a file name is a stem and a suffix.   *)
(* A binary file is "new" when the current run wrote it and "old" when it  *)
(* was there before the run.  Calls into eodal / rtm_inv are recorded in   *)
(* `calls` and are assumed to return normally.                             *)
(***************************************************************************)
EXTENDS Integers, Sequences, FiniteSets, Bags, TLC

VARIABLES
    script,          \* the script that is run
    arg,             \* the four_or_eight_bands argument of the call
    children,        \* entries of `path` (what path.iterdir() yields)
    files,           \* binary files: <<folder, subdir, file name>> -> "old", "new"
    dirs,            \* existing sub-directories: <<folder, subdir>>
    errored_scenes,  \* <folder>/lai/errored_scenes/errored_scenes.txt: lines
    metadata,        \* <folder>/metadata/<stem>.xml: <<folder, stem>> -> document
    errored_xml,     \* <folder>/metadata/errored_xml/<stem>.xml
    pc,              \* "idle", "folders", "scenes", "done", "raised"
    todoFolders,     \* entries path.iterdir() has not yielded yet
    cur,             \* name of the folder whose scenes are looped over
    todoScenes,      \* stems the glob of the current folder has not yielded yet
    calls,           \* bag of the library calls of the current run
    last,            \* what the last step of the loop did
    listed,          \* path.iterdir() was called in the current run
    exc,             \* exception that ended the current run, "" if none
    ret,             \* outcome of the last call of parse_metadata_xml
    missed,          \* a scene of the current run had no LUT resp. no
                     \* metadata that could be parsed
    prevClean,       \* the call before the current one completed and
                     \* missed nothing
    sat_dirs,        \* children of data_dir (what data_dir.iterdir() yields)
    year_dirs,       \* the children of data_dir that have a <year> entry
    gpkg,            \* GeoPackages below data_dir: path -> rows
    args,            \* positional arguments of the call of a decorated statistic
    response,        \* the HTTP response requests.get(url) returns
    filename,        \* the filename argument of download_data
    cwd              \* entries of the working directory: name -> entry

runVars == <<missed, prevClean>>
statsVars == <<sat_dirs, year_dirs, gpkg>>
wrapVars == <<args>>
loadVars == <<response, filename, cwd>>

\* the state of the functions that walk no month folders
toolVars == <<statsVars, wrapVars, loadVars>>

vars == <<script, arg, children, files, dirs, errored_scenes, metadata,
          errored_xml, pc, todoFolders, cur, todoScenes, calls, last,
          listed, exc, ret, runVars, toolVars>>

\* a first call
FirstRun ==
    /\ missed = FALSE
    /\ prevClean = FALSE

\* get_parcel_statistics is not called
StatsIdle ==
    /\ sat_dirs = {}
    /\ year_dirs = {}
    /\ gpkg = << >>

\* no decorated statistic is called
WrapperIdle == args = << >>

\* download_data is not called
DownloadIdle ==
    /\ response = << >>
    /\ filename = ""
    /\ cwd = << >>

\* no function outside the walk over the month folders has state
ToolsIdle == StatsIdle /\ WrapperIdle /\ DownloadIdle

----------------------------------------------------------------------------
(* Bounds *)

\* entries of `path`
MaxFolders == 2
\* scenes (resp. metadata files) below `path`
MaxScenes == 2
\* lines of an errored_scenes.txt up to which the script is run again
MaxErroredLines == 2

----------------------------------------------------------------------------
(* Strings *)

Digits  == {"0", "1", "2", "3", "4", "5", "6", "7", "8", "9"}
Letters == {"a", "j", "l", "n", "p", "r", "t", "u"}

\* str.isdigit(): non-empty and every character is a digit
isdigit(s) == Len(s) > 0 /\ \A i \in 1..Len(s) : s[i] \in Digits

\* name[:2]
Slice2(name) == SubSeq(name, 1, IF Len(name) < 2 THEN Len(name) ELSE 2)

NoName  == << >>
NoScene == << >>

\* scene.stem.split('_')[-1] and scene.stem.split('_')[0]
LastToken(stem)  == stem[Len(stem)]
FirstToken(stem) == stem[1]

FName(stem, suffix) == [stem |-> stem, suffix |-> suffix]

----------------------------------------------------------------------------
(* The folder test, common to all six scripts:                             *)
(*     if folder.name[:2].isdigit() and folder.name[2] == '_':             *)
(* `and` short-circuits; name[2] raises IndexError on a name of less than  *)
(* three characters.                                                       *)


FolderTest(name) ==
    IF ~isdigit(Slice2(name)) THEN "skip"
    ELSE IF Len(name) < 3 THEN "IndexError"
    ELSE IF name[3] = "_" THEN "enter"
    ELSE "skip"

----------------------------------------------------------------------------
(* Module constants of the LAI retrieval scripts *)

ps_8bands == << <<"B1", "coastal_blue">>, <<"B2", "blue">>,
                <<"B3", "green_i">>, <<"B4", "green">>,
                <<"B5", "yellow">>, <<"B6", "red">>,
                <<"B7", "red_edge">>, <<"B8", "nir">> >>
ps_4bands == << <<"B2", "blue">>, <<"B4", "green">>,
                <<"B6", "red">>, <<"B8", "nir">> >>
ps_bands  == <<"B1", "B2", "B3", "B4", "B5", "B6", "B7", "B8">>

s2_bands_10m == <<"B02", "B03", "B04", "B08">>
s2_bands_20m == <<"B05", "B06", "B07", "B8A", "B11", "B12">>
s2_bands == [r \in {"10m", "20m"} |->
                IF r = "10m" THEN s2_bands_10m ELSE s2_bands_20m]

keys(d)   == [i \in 1..Len(d) |-> d[i][1]]
values(d) == [i \in 1..Len(d) |-> d[i][2]]
AllBands  == <<"*">>       \* rc.get_values() without a band selection

PsLai  == "scripts/lai_retrieval_planetscope.py"
PsLai0 == "lai_retrieval_planetscope.py"
S2Lai  == "scripts/lai_retrieval_sentinel2.py"
LaiScripts == {PsLai, PsLai0, S2Lai}

\* values of four_or_eight_bands; "absent": the argument is not given
Args == {"absent", "four", "eight", "None", "six"}

\* the default of the parameter
Bound_eight(a) == IF a = "absent" THEN "eight" ELSE a
BoundArg(a) == IF a = "absent" THEN "four" ELSE a

\* the check of the input
ArgAccepted_any(a) == TRUE
ArgAccepted(a) == BoundArg(a) \in {"four", "eight"}

\* the LAI settings
Settings(a) ==
    IF BoundArg(a) = "four"
    THEN [ps_bands |-> ps_4bands, lai_file_prefix |-> "lai_4bands"]
    ELSE [ps_bands |-> ps_8bands, lai_file_prefix |-> "lai_8bands"]

\* suffix appended to the scene stem for the GeoTiff and the PNG
LaiSuffix(s, a, ext) ==
    IF s = PsLai THEN "_" \o Settings(a).lai_file_prefix \o ext
    ELSE "_lai" \o ext

\* fpath_lai
FpathLai(s, a, folder, stem) ==
    <<folder, "lai", FName(stem, LaiSuffix(s, a, ".tif"))>>
FpathLaiPlot(s, a, folder, stem) ==
    <<folder, "lai", FName(stem, LaiSuffix(s, a, ".png"))>>

\* lut_file of a scene
LutFile(s, folder, stem) ==
    IF s = S2Lai
    THEN <<folder, "lut", FName(<<FirstToken(stem), "MTD", "TL">>, ".pkl")>>
    ELSE <<folder, "lut", FName(stem, ".pkl")>>

\* fpath_lai.exists()
OutputExists_never(s, a, folder, stem) == FALSE
OutputExists(s, a, folder, stem) ==
    FpathLai(s, a, folder, stem) \in DOMAIN files

\* lut_file.exists()
LutExists_always(s, folder, stem) == TRUE
LutExists(s, folder, stem) == LutFile(s, folder, stem) \in DOMAIN files

\* the resolution check of the Sentinel-2 script
ResolutionKnown(s, stem) == s = S2Lai => LastToken(stem) \in DOMAIN s2_bands

\* columns of the LUT and bands of the image handed to inv_img
SimReflColumns_10m(s, a, stem) ==
    IF s = PsLai THEN keys(Settings(a).ps_bands)
    ELSE IF s = PsLai0 THEN ps_bands
    ELSE s2_bands_10m
SimReflColumns(s, a, stem) ==
    IF s = PsLai THEN keys(Settings(a).ps_bands)
    ELSE IF s = PsLai0 THEN ps_bands
    ELSE s2_bands[LastToken(stem)]
ObsReflBands(s, a) ==
    IF s = PsLai THEN values(Settings(a).ps_bands) ELSE AllBands

PsRtm  == "scripts/run_prosail_planetscope.py"
PsRtm0 == "run_prosail_planetscope.py"
S2Rtm  == "run_prosail_sentinel2.py"
ProsailScripts == {PsRtm, PsRtm0, S2Rtm}

\* data_dir.glob('*.tif')
GlobTif(folder) ==
    {p[3].stem : p \in {q \in DOMAIN files : q[1] = folder /\ q[2] = "data"}}

\* metadata_dir.glob('*.xml')
GlobXml(folder) == {k[2] : k \in {q \in DOMAIN metadata : q[1] = folder}}

\* the files the loop of a folder runs over
Glob(s, folder) == IF s \in LaiScripts THEN GlobTif(folder) ELSE GlobXml(folder)

\* the directory the script creates in a folder it enters
OutDir(s) == IF s \in LaiScripts THEN "lai" ELSE "lut"

Call(fn, folder, stem, cols, bands) ==
    [fn |-> fn, folder |-> folder, scene |-> stem, lut |-> cols,
     img |-> bands]

\* the bands added to the collection that to_rasterio saves as GeoTiff: the
\* trait, cost_function_values[0, :, :] and cost_function_values[-1, :, :]
trait_collection ==
    <<"lai", "lowest_cost_function_value", "highest_cost_function_value">>

Event(op, folder, stem) == [op |-> op, folder |-> folder, scene |-> stem]

\* position of the loops once the current body is left
NextPc(tf, ts) ==
    IF ts # {} THEN "scenes" ELSE IF tf # {} THEN "folders" ELSE "done"

\* f extended or overwritten at the points of ps
Written_nothing(f, ps, v) == f
Written(f, ps, v) == [p \in DOMAIN f \cup ps |-> IF p \in ps THEN v ELSE f[p]]

----------------------------------------------------------------------------
(* Metadata documents and parse_metadata_xml                               *)
(* A document is not well-formed, or it is a sequence of                   *)
(* eop:acquisitionParameters elements in document order; each of them is   *)
(* the sequence of its ps:Acquisition elements; a ps:Acquisition element   *)
(* maps a tag to the sequence of its elements with that tag; an element    *)
(* is the sequence of its child nodes (at most one: a text node or an      *)
(* element node).                                                          *)

TextNode(chars) == [kind |-> "text", nodeValue |-> chars]
ElementNode     == [kind |-> "element", nodeValue |-> << >>]

DigitVal == [c \in Digits |->
               CASE c = "0" -> 0 [] c = "1" -> 1 [] c = "2" -> 2
                 [] c = "3" -> 3 [] c = "4" -> 4 [] c = "5" -> 5
                 [] c = "6" -> 6 [] c = "7" -> 7 [] c = "8" -> 8
                 [] c = "9" -> 9]

RECURSIVE lstrip(_)
lstrip(s) == IF Len(s) > 0 /\ s[1] = " " THEN lstrip(Tail(s)) ELSE s
RECURSIVE rstrip(_)
rstrip(s) == IF Len(s) > 0 /\ s[Len(s)] = " "
             THEN rstrip(SubSeq(s, 1, Len(s) - 1)) ELSE s
strip(s) == rstrip(lstrip(s))

RECURSIVE Decimal(_)
Decimal(s) == IF Len(s) = 0 THEN 0
              ELSE 10 * Decimal(SubSeq(s, 1, Len(s) - 1)) + DigitVal[s[Len(s)]]

NoDict == << >>
NoRet  == [raised |-> "", value |-> NoDict]
Returned(v) == [raised |-> "", value |-> v]
Raised(e)   == [raised |-> e, value |-> NoDict]

\* float(x) of a node value: surrounding blanks are ignored, an unsigned
\* decimal integer literal is converted, other strings raise ValueError and
\* None (the nodeValue of an element node) raises TypeError
float(node) ==
    IF node.kind # "text" THEN Raised("TypeError")
    ELSE IF isdigit(strip(node.nodeValue))
         THEN Returned(Decimal(strip(node.nodeValue)))
         ELSE Raised("ValueError")

\* metadata entries to be extracted from the xml file
eop_angle_mapping ==
    << <<"ps:spaceCraftViewAngle", "viewing_zenith_angle">>,
       <<"ps:azimuthAngle", "relative_azimuth_angle">>,
       <<"opt:illuminationElevationAngle", "sun_elevation">> >>

\* angles[key] = v
SetItem(d, k, v) == [x \in DOMAIN d \cup {k} |-> IF x = k THEN v ELSE d[x]]
\* del angles[key]
DelItem(d, k) == [x \in DOMAIN d \ {k} |-> d[x]]

\* element.getElementsByTagName(tag) of a ps:Acquisition element
getElementsByTagName(element, tag) == element[tag]

\* the [0] of a list of elements
Item0_last(elements) == elements[Len(elements)]
Item0(elements) == elements[1]

\* the loop over eop_angle_mapping.items(), from the i-th item on
RECURSIVE AnglesLoop(_, _, _)
AnglesLoop(ps_params, i, angles) ==
    IF i > Len(eop_angle_mapping) THEN Returned(angles)
    ELSE LET eop_angle == eop_angle_mapping[i]
             found == getElementsByTagName(ps_params, eop_angle[1])
         IN IF Len(found) = 0 THEN Raised("IndexError")
            ELSE IF Len(Item0(found)) = 0 THEN Raised("AttributeError")
            ELSE LET x == float(Item0(found)[1])
                 IN IF x.raised # "" THEN x
                    ELSE AnglesLoop(ps_params, i + 1,
                                    SetItem(angles, eop_angle[2], x.value))

parse_with_epsg(in_file) ==
    IF ~in_file.wellformed THEN Raised("ExpatError")
    ELSE IF Len(in_file.acquisitionParameters) = 0 THEN Raised("IndexError")
    ELSE LET eop_params == Item0(in_file.acquisitionParameters)
         IN IF Len(eop_params) = 0 THEN Raised("IndexError")
            ELSE LET r == AnglesLoop(Item0(eop_params), 1, NoDict)
                 IN IF r.raised # "" THEN r
                    ELSE Returned(SetItem(r.value, "epsg",
                                          Decimal(in_file.epsgCode)))

parse_metadata_xml(in_file) ==
    IF ~in_file.wellformed THEN Raised("ExpatError")
    ELSE IF Len(in_file.acquisitionParameters) = 0 THEN Raised("IndexError")
    ELSE LET eop_params == Item0(in_file.acquisitionParameters)
         IN IF Len(eop_params) = 0 THEN Raised("IndexError")
            ELSE AnglesLoop(Item0(eop_params), 1, NoDict)

----------------------------------------------------------------------------
(* Inputs *)

\* entries of a year directory
Catalog ==
    { [name |-> <<"0", "4", "_", "a", "p", "r">>, isDir |-> TRUE],
      [name |-> <<"0", "7", "_", "1", "2">>, isDir |-> TRUE],
      [name |-> <<"0", "8">>, isDir |-> TRUE],
      [name |-> <<"l", "u", "t">>, isDir |-> TRUE],
      [name |-> <<"0", "9", "_", "t", "a", "r">>, isDir |-> FALSE] }

\* scene stems; only the Sentinel-2 script looks at the last token
Stems(s) ==
    IF s = S2Lai
    THEN { <<"d1", "10m">>, <<"d1", "20m">>, <<"d1", "60m">> }
    ELSE { <<"d1", "10m">>, <<"d1", "20m">> }

Bounded(S, n) == {x \in SUBSET S : Cardinality(x) <= n}

\* the directories among the entries that hold scenes and metadata: the
\* month folders, named with two digits and an underscore
MonthFolders(cs) ==
    {c.name : c \in {d \in cs : /\ d.isDir
                                /\ Len(d.name) >= 3
                                /\ d.name[1] \in Digits
                                /\ d.name[2] \in Digits
                                /\ d.name[3] = "_"}}

----------------------------------------------------------------------------
(* LAI retrieval: lai_retrieval_planetscope (two versions) and             *)
(* lai_retrieval_sentinel2                                                 *)

InitLai ==
    /\ FirstRun
    /\ ToolsIdle
    /\ script \in LaiScripts
    /\ arg \in (IF script = PsLai THEN Args ELSE {"absent"})
    /\ children \in Bounded(Catalog, MaxFolders)
    /\ \E scenes \in Bounded(MonthFolders(children) \X Stems(script),
                              MaxScenes) :
         LET data == {<<sc[1], "data", FName(sc[2], ".tif")>> : sc \in scenes}
             lutc == {LutFile(script, sc[1], sc[2]) : sc \in scenes}
             \* results of an earlier retrieval: none or those of one
             \* configuration
             outc == IF script = PsLai
                     THEN {"", "_lai_4bands", "_lai_8bands"}
                     ELSE {"", "_lai"}
         IN \E luts \in SUBSET lutc, out \in [scenes -> outc] :
              LET outs == {sc \in scenes : out[sc] # ""}
                  tifs == {<<sc[1], "lai", FName(sc[2], out[sc] \o ".tif")>> :
                              sc \in outs}
                  pngs == {<<sc[1], "lai", FName(sc[2], out[sc] \o ".png")>> :
                              sc \in outs}
                  all == data \cup luts \cup tifs \cup pngs
              IN /\ files = [p \in all |-> "old"]
                 /\ dirs = {<<p[1], p[2]>> : p \in all}
    /\ errored_scenes = << >>
    /\ metadata = << >>
    /\ errored_xml = << >>
    /\ pc = "idle"
    /\ todoFolders = {}
    /\ cur = NoName
    /\ todoScenes = {}
    /\ calls = EmptyBag
    /\ last = Event("none", NoName, NoScene)
    /\ listed = FALSE
    /\ exc = ""
    /\ ret = NoRet

Raise(e, op, folder, stem) ==
    /\ pc' = "raised"
    /\ exc' = e
    /\ last' = Event(op, folder, stem)

\* the check of the input, the LAI settings and the call of path.iterdir()
Start ==
    /\ pc = "idle"
    /\ calls' = EmptyBag
    /\ IF script = PsLai /\ ~ArgAccepted(arg)
       THEN /\ Raise("ValueError", "check_input", NoName, NoScene)
            /\ UNCHANGED <<todoFolders, listed>>
       ELSE /\ listed' = TRUE
            /\ todoFolders' = children
            /\ pc' = NextPc(children, {})
            /\ exc' = ""
            /\ last' = Event("start", NoName, NoScene)
    /\ UNCHANGED ret
    /\ UNCHANGED runVars
    /\ UNCHANGED toolVars
    /\ UNCHANGED <<script, arg, children, files, dirs, errored_scenes,
                   metadata, errored_xml, cur, todoScenes>>

\* one entry of path.iterdir(): the folder test, the mkdir of the lai resp.
\* lut directory and the glob of the scenes resp. metadata files
EnterFolder ==
    /\ pc = "folders"
    /\ \E c \in todoFolders :
         LET t == FolderTest(c.name) IN
         /\ todoFolders' = todoFolders \ {c}
         /\ IF t = "IndexError"
            THEN /\ Raise("IndexError", "folder_test", c.name, NoScene)
                 /\ UNCHANGED <<dirs, cur, todoScenes>>
            ELSE IF t = "skip"
            THEN /\ pc' = NextPc(todoFolders', {})
                 /\ last' = Event("folder_skipped", c.name, NoScene)
                 /\ UNCHANGED <<dirs, cur, todoScenes, exc>>
            ELSE IF ~c.isDir
            THEN /\ Raise("NotADirectoryError", "mkdir", c.name, NoScene)
                 /\ UNCHANGED <<dirs, cur, todoScenes>>
            ELSE /\ dirs' = dirs \cup {<<c.name, OutDir(script)>>}
                 /\ cur' = c.name
                 /\ todoScenes' = Glob(script, c.name)
                 /\ pc' = NextPc(todoFolders', todoScenes')
                 /\ last' = Event("folder_entered", c.name, NoScene)
                 /\ UNCHANGED exc
    /\ UNCHANGED ret
    /\ UNCHANGED runVars
    /\ UNCHANGED toolVars
    /\ UNCHANGED <<script, arg, children, files, errored_scenes, metadata,
                   errored_xml, calls, listed>>

\* Sentinel-2 only: the scene has no known spatial resolution
LaiSkipResolution ==
    /\ pc = "scenes"
    /\ script \in LaiScripts
    /\ \E stem \in todoScenes :
         /\ ~ResolutionKnown(script, stem)
         /\ todoScenes' = todoScenes \ {stem}
         /\ pc' = NextPc(todoFolders, todoScenes')
         /\ last' = Event("skip_resolution", cur, stem)
    /\ UNCHANGED ret
    /\ UNCHANGED runVars
    /\ UNCHANGED toolVars
    /\ UNCHANGED <<script, arg, children, files, dirs, errored_scenes,
                   metadata, errored_xml, todoFolders, cur, calls, listed,
                   exc>>

\* the scene is already processed
LaiSkipExisting ==
    /\ pc = "scenes"
    /\ script \in LaiScripts
    /\ \E stem \in todoScenes :
         /\ ResolutionKnown(script, stem)
         /\ OutputExists(script, arg, cur, stem)
         /\ todoScenes' = todoScenes \ {stem}
         /\ pc' = NextPc(todoFolders, todoScenes')
         /\ last' = Event("skip_existing", cur, stem)
    /\ UNCHANGED ret
    /\ UNCHANGED runVars
    /\ UNCHANGED toolVars
    /\ UNCHANGED <<script, arg, children, files, dirs, errored_scenes,
                   metadata, errored_xml, todoFolders, cur, calls, listed,
                   exc>>

\* the LUT of the scene is not found
LaiNoLut ==
    /\ pc = "scenes"
    /\ script \in LaiScripts
    /\ \E stem \in todoScenes :
         /\ ResolutionKnown(script, stem)
         /\ ~OutputExists(script, arg, cur, stem)
         /\ ~LutExists(script, cur, stem)
         /\ dirs' = dirs \cup {<<cur, "lai/errored_scenes">>}
         /\ errored_scenes' =
              [f \in DOMAIN errored_scenes \cup {cur} |->
                 IF f = cur
                 THEN (IF cur \in DOMAIN errored_scenes
                       THEN errored_scenes[cur] ELSE << >>)
                      \o << FName(stem, ".tif") >>
                 ELSE errored_scenes[f]]
         /\ todoScenes' = todoScenes \ {stem}
         /\ pc' = NextPc(todoFolders, todoScenes')
         /\ last' = Event("no_lut", cur, stem)
    /\ UNCHANGED ret
    /\ missed' = TRUE
    /\ UNCHANGED prevClean
    /\ UNCHANGED toolVars
    /\ UNCHANGED <<script, arg, children, files, metadata, errored_xml,
                   todoFolders, cur, calls, listed, exc>>

\* the inversion of the scene, the GeoTiff and the quicklook
LaiInvert ==
    /\ pc = "scenes"
    /\ script \in LaiScripts
    /\ \E stem \in todoScenes :
         /\ ResolutionKnown(script, stem)
         /\ ~OutputExists(script, arg, cur, stem)
         /\ LutExists(script, cur, stem)
         /\ calls' = calls (+)
              SetToBag({Call("inv_img", cur, stem,
                             SimReflColumns(script, arg, stem),
                             ObsReflBands(script, arg)),
                        Call("retrieve_traits", cur, stem, <<"lai">>,
                             <<"median">>),
                        Call("to_rasterio", cur, stem, << >>,
                             trait_collection)})
         /\ files' = Written(files, {FpathLai(script, arg, cur, stem),
                                     FpathLaiPlot(script, arg, cur, stem)},
                             "new")
         /\ todoScenes' = todoScenes \ {stem}
         /\ pc' = NextPc(todoFolders, todoScenes')
         /\ last' = Event("inverted", cur, stem)
    /\ UNCHANGED ret
    /\ UNCHANGED runVars
    /\ UNCHANGED toolVars
    /\ UNCHANGED <<script, arg, children, dirs, errored_scenes, metadata,
                   errored_xml, todoFolders, cur, listed, exc>>

\* the script is called again on the same directory
Rerun ==
    /\ pc \in {"done", "raised"}
    /\ \A f \in DOMAIN errored_scenes :
         Len(errored_scenes[f]) < MaxErroredLines
    /\ files' = [p \in DOMAIN files |-> "old"]
    /\ pc' = "idle"
    /\ exc' = ""
    /\ listed' = FALSE
    /\ todoFolders' = {}
    /\ todoScenes' = {}
    /\ cur' = NoName
    /\ last' = Event("none", NoName, NoScene)
    /\ UNCHANGED ret
    /\ missed' = FALSE
    /\ prevClean' = (pc = "done" /\ ~missed)
    /\ UNCHANGED toolVars
    /\ calls' = EmptyBag
    /\ UNCHANGED <<script, arg, children, dirs, errored_scenes, metadata,
                   errored_xml>>

NextLai ==
    \/ Start
    \/ EnterFolder
    \/ LaiSkipResolution
    \/ LaiSkipExisting
    \/ LaiNoLut
    \/ LaiInvert
    \/ Rerun

SpecLai == InitLai /\ [][NextLai]_vars

----------------------------------------------------------------------------
(* Documents handed to parse_metadata_xml *)

\* elements of one tag inside one element, and nested elements of one kind
MaxElems == 2

Tags == {eop_angle_mapping[i][1] : i \in 1..Len(eop_angle_mapping)}

\* child nodes of an angle element
Leaves == { << >>,
            << TextNode(<<"1", "0">>) >>,
            << TextNode(<<"2", "5">>) >>,
            << TextNode(<<" ", "6", "0", " ">>) >>,
            << TextNode(<<"n", "a">>) >>,
            << ElementNode >> }

\* a further element of the same tag, later in document order
Later == << TextNode(<<"9", "9">>) >>

\* sequences of at most MaxElems items: any first item, then `later` items
Lists(firsts, later) ==
    { << >> } \cup
    { [i \in 1..n |-> IF i = 1 THEN f ELSE later] :
        n \in 1..MaxElems, f \in firsts }

LaterAcquisition == [t \in Tags |-> << Later >>]

Acquisitions ==
    { a \in [Tags -> Lists(Leaves, Later)] :
        \* at most one of the three angles departs from a plain number
        Cardinality({t \in Tags :
                       a[t] \notin Lists({<< TextNode(<<"1", "0">>) >>,
                                          << TextNode(<<"2", "5">>) >>},
                                         Later)}) <= 1 }

Document(params, epsg, orbit) ==
    [wellformed |-> TRUE, acquisitionParameters |-> params,
     epsgCode |-> epsg, orbitDirection |-> orbit]

Malformed == [wellformed |-> FALSE, acquisitionParameters |-> << >>,
              epsgCode |-> << >>, orbitDirection |-> "" ]

Documents ==
    { Malformed } \cup
    { Document(p, e, o) :
        p \in Lists(Lists(Acquisitions, LaterAcquisition),
                    << LaterAcquisition >>),
        e \in { <<"3", "2", "6", "3", "2">> },
        o \in { "DESCENDING", "ASCENDING" } }

----------------------------------------------------------------------------
(* parse_metadata_xml applied to one document *)

TheFile == <<NoName, <<"in", "file">>>>

InitParse ==
    /\ FirstRun
    /\ ToolsIdle
    /\ script = "parse_metadata_xml"
    /\ arg = "absent"
    /\ children = {}
    /\ files = << >>
    /\ dirs = {}
    /\ errored_scenes = << >>
    /\ \E d \in Documents : metadata = [f \in {TheFile} |-> d]
    /\ errored_xml = << >>
    /\ pc = "idle"
    /\ todoFolders = {}
    /\ cur = NoName
    /\ todoScenes = {}
    /\ calls = EmptyBag
    /\ last = Event("none", NoName, NoScene)
    /\ listed = FALSE
    /\ exc = ""
    /\ ret = NoRet

ParseCall ==
    /\ pc = "idle"
    /\ script = "parse_metadata_xml"
    /\ ret' = parse_metadata_xml(metadata[TheFile])
    /\ pc' = IF ret'.raised = "" THEN "done" ELSE "raised"
    /\ exc' = ret'.raised
    /\ last' = Event("parsed", NoName, TheFile[2])
    /\ UNCHANGED runVars
    /\ UNCHANGED toolVars
    /\ UNCHANGED <<script, arg, children, files, dirs, errored_scenes,
                   metadata, errored_xml, todoFolders, cur, todoScenes,
                   calls, listed>>

NextParse == ParseCall

SpecParse == InitParse /\ [][NextParse]_vars

----------------------------------------------------------------------------
(* LUT generation: run_prosail_planetscope (two versions) and              *)
(* run_prosail_sentinel2                                                   *)

platform == "PlanetSuperDove"

\* metadata entries of the Sentinel-2 tile metadata
s2_angle_mapping ==
    << <<"SENSOR_ZENITH_ANGLE", "viewing_zenith_angle">>,
       <<"SENSOR_AZIMUTH_ANGLE", "viewing_azimuth_angle">>,
       <<"SUN_AZIMUTH_ANGLE", "solar_azimuth_angle">>,
       <<"SUN_ZENITH_ANGLE", "solar_zenith_angle">> >>

s2_platform_mapping ==
    [sensor \in {"S2A", "S2B"} |->
       IF sensor = "S2A" THEN "Sentinel2A" ELSE "Sentinel2B"]

\* lut_file of a metadata file
LutPkl(folder, stem) == <<folder, "lut", FName(stem, ".pkl")>>

\* lut_file.exists()
LutPklExists_never(folder, stem) == FALSE
LutPklExists(folder, stem) == LutPkl(folder, stem) \in DOMAIN files

\* eodal's parse_MTD_TL: the entries of the tile metadata, or an exception
parse_MTD_TL(in_file) ==
    IF in_file.wellformed THEN Returned(in_file.entries)
    ELSE Raised("Exception")

\* the parser a script applies to a metadata file
Parse(s, in_file) ==
    IF s = S2Rtm THEN parse_MTD_TL(in_file) ELSE parse_metadata_xml(in_file)
ParserOf(s) == IF s = S2Rtm THEN "parse_MTD_TL" ELSE "parse_metadata_xml"

\* angles['solar_zenith_angle'] = 90 - angles['sun_elevation']
\* del angles['sun_elevation']
LutAngles_elevation(angles) ==
    SetItem(angles, "solar_zenith_angle", 90 - angles["sun_elevation"])
LutAngles(angles) ==
    DelItem(SetItem(angles, "solar_zenith_angle",
                    90 - angles["sun_elevation"]),
            "sun_elevation")

\* the loop over s2_angle_mapping.items(); the entries are numbers, which
\* float() returns as they are
S2Angles(metadata_df) ==
    [k \in {s2_angle_mapping[i][2] : i \in 1..Len(s2_angle_mapping)} |->
       LET i == CHOOSE j \in 1..Len(s2_angle_mapping) :
                   s2_angle_mapping[j][2] = k
       IN metadata_df[s2_angle_mapping[i][1]]]

\* sensor = metadata_df['SCENE_ID'].split('_')[0]
Sensor(metadata_df) == FirstToken(metadata_df["SCENE_ID"])

\* the keyword arguments of generate_lut, or the exception raised on the
\* way to them, given the parsed metadata
LutArguments(s, parsed) ==
    IF s = S2Rtm
    THEN IF Sensor(parsed) \in DOMAIN s2_platform_mapping
         THEN Returned([sensor |-> s2_platform_mapping[Sensor(parsed)],
                        angles |-> S2Angles(parsed)])
         ELSE Raised("KeyError")
    ELSE Returned([sensor |-> platform, angles |-> LutAngles(parsed)])

\* the scripts version of run_prosail_planetscope catches the exceptions of
\* the parser
Catches_never(s) == FALSE
Catches(s) == s = PsRtm

RtmCall(fn, folder, stem, sensor, angles) ==
    [fn |-> fn, folder |-> folder, scene |-> stem, sensor |-> sensor,
     angles |-> angles]

\* documents of the PlanetScope metadata files
AcquisitionOf(view, azim, illum) ==
    [t \in Tags |->
       CASE t = "ps:spaceCraftViewAngle" -> view
         [] t = "ps:azimuthAngle" -> azim
         [] t = "opt:illuminationElevationAngle" -> illum]

PsDocuments ==
    { Document(<< << AcquisitionOf(<< << TextNode(<<"1", "0">>) >>, Later >>,
                                   << << TextNode(<<"2", "5">>) >> >>,
                                   << << TextNode(<<" ", "6", "0", " ">>) >>,
                                      Later >>),
                     LaterAcquisition >> >>,
               <<"3", "2", "6", "3", "2">>, "DESCENDING"),
      Document(<< << AcquisitionOf(<< << TextNode(<<"1", "0">>) >> >>,
                                   << << TextNode(<<"2", "5">>) >> >>,
                                   << >>) >>,
                  << LaterAcquisition >> >>,
               <<"3", "2", "6", "3", "2">>, "ASCENDING"),
      Malformed }

\* what parse_MTD_TL reads from the Sentinel-2 tile metadata
TileMetadata(sensor) ==
    [wellformed |-> TRUE,
     entries |-> [k \in {"SCENE_ID", "SENSOR_ZENITH_ANGLE",
                         "SENSOR_AZIMUTH_ANGLE", "SUN_AZIMUTH_ANGLE",
                         "SUN_ZENITH_ANGLE"} |->
                    CASE k = "SCENE_ID" -> <<sensor, "OPER", "MSI">>
                      [] k = "SENSOR_ZENITH_ANGLE" -> 5
                      [] k = "SENSOR_AZIMUTH_ANGLE" -> 110
                      [] k = "SUN_AZIMUTH_ANGLE" -> 160
                      [] k = "SUN_ZENITH_ANGLE" -> 40]]

S2Documents ==
    { TileMetadata("S2A"), TileMetadata("S2B"), TileMetadata("S2C"),
      [wellformed |-> FALSE, entries |-> << >>] }

MetadataStems == { <<"d1", "MTD", "TL">>, <<"d2", "MTD", "TL">> }

InitProsail ==
    /\ FirstRun
    /\ ToolsIdle
    /\ script \in ProsailScripts
    /\ arg = "absent"
    /\ children \in Bounded(Catalog, MaxFolders)
    /\ \E ks \in Bounded(MonthFolders(children) \X MetadataStems, MaxScenes) :
         /\ metadata \in [ks -> IF script = S2Rtm THEN S2Documents
                                ELSE PsDocuments]
         /\ \E luts \in SUBSET ks :
              /\ files = [p \in {LutPkl(k[1], k[2]) : k \in luts} |-> "old"]
              /\ dirs = {<<k[1], "metadata">> : k \in ks}
                        \cup {<<k[1], "lut">> : k \in luts}
    /\ errored_scenes = << >>
    /\ errored_xml = << >>
    /\ pc = "idle"
    /\ todoFolders = {}
    /\ cur = NoName
    /\ todoScenes = {}
    /\ calls = EmptyBag
    /\ last = Event("none", NoName, NoScene)
    /\ listed = FALSE
    /\ exc = ""
    /\ ret = NoRet

\* the LUT of the metadata file exists
ProsailSkipExisting ==
    /\ pc = "scenes"
    /\ script \in ProsailScripts
    /\ \E stem \in todoScenes :
         /\ LutPklExists(cur, stem)
         /\ todoScenes' = todoScenes \ {stem}
         /\ pc' = NextPc(todoFolders, todoScenes')
         /\ last' = Event("skip_existing", cur, stem)
    /\ UNCHANGED ret
    /\ UNCHANGED runVars
    /\ UNCHANGED toolVars
    /\ UNCHANGED <<script, arg, children, files, dirs, errored_scenes,
                   metadata, errored_xml, todoFolders, cur, calls, listed,
                   exc>>

\* the parser raises: the scripts version of run_prosail_planetscope moves
\* the file to errored_xml and goes on, the other scripts end
ProsailParseError ==
    /\ pc = "scenes"
    /\ script \in ProsailScripts
    /\ \E stem \in todoScenes :
         LET parsed == Parse(script, metadata[<<cur, stem>>]) IN
         /\ ~LutPklExists(cur, stem)
         /\ parsed.raised # ""
         /\ calls' = calls (+)
              SetToBag({RtmCall(ParserOf(script), cur, stem, "", NoDict)})
         /\ todoScenes' = todoScenes \ {stem}
         /\ IF ~Catches(script)
            THEN /\ Raise(parsed.raised, "parse_failed", cur, stem)
                 /\ UNCHANGED <<dirs, metadata, errored_xml>>
            ELSE /\ dirs' = dirs \cup {<<cur, "metadata/errored_xml">>}
                 /\ IF <<cur, stem>> \in DOMAIN errored_xml
                    THEN \* shutil.move: the destination path already exists
                         /\ Raise("shutil.Error", "move_failed", cur, stem)
                         /\ UNCHANGED <<metadata, errored_xml>>
                    ELSE /\ errored_xml' =
                              [k \in DOMAIN errored_xml \cup {<<cur, stem>>} |->
                                 IF k = <<cur, stem>>
                                 THEN metadata[<<cur, stem>>]
                                 ELSE errored_xml[k]]
                         /\ metadata' =
                              [k \in DOMAIN metadata \ {<<cur, stem>>} |->
                                 metadata[k]]
                         /\ pc' = NextPc(todoFolders, todoScenes')
                         /\ last' = Event("xml_moved", cur, stem)
                         /\ UNCHANGED exc
    /\ UNCHANGED ret
    /\ missed' = TRUE
    /\ UNCHANGED prevClean
    /\ UNCHANGED toolVars
    /\ UNCHANGED <<script, arg, children, files, errored_scenes,
                   todoFolders, cur, listed>>

\* Sentinel-2: the sensor of the scene is not in s2_platform_mapping
ProsailUnknownSensor ==
    /\ pc = "scenes"
    /\ script \in ProsailScripts
    /\ \E stem \in todoScenes :
         LET parsed == Parse(script, metadata[<<cur, stem>>]) IN
         /\ ~LutPklExists(cur, stem)
         /\ parsed.raised = ""
         /\ LutArguments(script, parsed.value).raised # ""
         /\ calls' = calls (+)
              SetToBag({RtmCall(ParserOf(script), cur, stem, "", NoDict)})
         /\ todoScenes' = todoScenes \ {stem}
         /\ Raise(LutArguments(script, parsed.value).raised,
                  "lookup_failed", cur, stem)
    /\ UNCHANGED ret
    /\ UNCHANGED runVars
    /\ UNCHANGED toolVars
    /\ UNCHANGED <<script, arg, children, files, dirs, errored_scenes,
                   metadata, errored_xml, todoFolders, cur, listed>>

\* the forward simulation and the pickle of the LUT
ProsailGenerate ==
    /\ pc = "scenes"
    /\ script \in ProsailScripts
    /\ \E stem \in todoScenes :
         LET parsed == Parse(script, metadata[<<cur, stem>>]) IN
         /\ ~LutPklExists(cur, stem)
         /\ parsed.raised = ""
         /\ LutArguments(script, parsed.value).raised = ""
         /\ LET kw == LutArguments(script, parsed.value).value
            IN calls' = calls (+)
                 SetToBag({RtmCall(ParserOf(script), cur, stem, "", NoDict),
                           RtmCall("generate_lut", cur, stem, kw.sensor,
                                   kw.angles)})
         /\ files' = Written(files, {LutPkl(cur, stem)}, "new")
         /\ todoScenes' = todoScenes \ {stem}
         /\ pc' = NextPc(todoFolders, todoScenes')
         /\ last' = Event("lut_written", cur, stem)
    /\ UNCHANGED ret
    /\ UNCHANGED runVars
    /\ UNCHANGED toolVars
    /\ UNCHANGED <<script, arg, children, dirs, errored_scenes, metadata,
                   errored_xml, todoFolders, cur, listed, exc>>

NextProsail ==
    \/ Start
    \/ EnterFolder
    \/ ProsailSkipExisting
    \/ ProsailParseError
    \/ ProsailUnknownSensor
    \/ ProsailGenerate
    \/ Rerun

SpecProsail == InitProsail /\ [][NextProsail]_vars

----------------------------------------------------------------------------
(* The six scripts together: calls and repeated calls of any of them *)

InitWalk == InitLai \/ InitProsail

NextWalk ==
    \/ Start
    \/ EnterFolder
    \/ LaiSkipResolution
    \/ LaiSkipExisting
    \/ LaiNoLut
    \/ LaiInvert
    \/ ProsailSkipExisting
    \/ ProsailParseError
    \/ ProsailUnknownSensor
    \/ ProsailGenerate
    \/ Rerun

SpecWalk == InitWalk /\ [][NextWalk]_vars

----------------------------------------------------------------------------
(* Parcel statistics: get_parcel_statistics of scripts/parcel_statistics.py *)
(* A GeoPackage <sat_dir>/<year>/<month>/lai/<stem>.gpkg is the path        *)
(* <<sat_dir, month, stem>>, the file <sat_dir>/<year>/parcel_statistics   *)
(* .gpkg is <<sat_dir, "", <<"parcel", "statistics">>>>; a GeoPackage holds *)
(* the sequence of its rows.                                               *)

\* GeoPackages below the lai directories of data_dir
MaxStats == 2

GetStats == "get_parcel_statistics"

SatNames == {"planetscope", "sentinel2"}
Months == {"04_apr", "05_may"}

\* stems of the GeoPackages of a lai directory: the statistics of a
\* PlanetScope and of a Sentinel-2 LAI map, and a file the glob leaves out
StatStems ==
    { <<"d1", "lai", "4bands", "parcel", "stats">>,
      <<"d1", "10m", "lai", "parcel", "stats">>,
      <<"parcel", "stats">> }

\* rows of a statistics file: a parcel without and one with LAI pixels
Tables ==
    { << [parcel |-> 1, count |-> 0] >>,
      << [parcel |-> 1, count |-> 0], [parcel |-> 2, count |-> 3] >> }

\* rows a former call left in parcel_statistics.gpkg
StaleTable ==
    << [parcel |-> 9, count |-> 1, scene |-> "d0", platform |-> "planetscope",
        month |-> "03_mar", config |-> "4bands"] >>

\* sat_dir_year.joinpath('parcel_statistics.gpkg')
PlatformStats(sat) == <<sat, "", <<"parcel", "statistics">>>>

\* the stem matches *_parcel_stats
IsParcelStats(stem) ==
    /\ Len(stem) >= 3
    /\ stem[Len(stem) - 1] = "parcel"
    /\ stem[Len(stem)] = "stats"

\* the files the two loops over sat_dir_year.iterdir() and
\* month_dir.joinpath('lai').glob('*_parcel_stats.gpkg') yield
StatsGlob(g, sat) ==
    {p \in DOMAIN g : p[1] = sat /\ p[2] # "" /\ IsParcelStats(p[3])}

\* the frame appended for a statistics file: the rows with count > 0 and the
\* columns scene, platform, month and config
ReadStats(g, p) ==
    LET kept == SelectSeq(g[p], LAMBDA r : r.count > 0)
    IN [i \in 1..Len(kept) |->
          [parcel |-> kept[i].parcel, count |-> kept[i].count,
           scene |-> p[3][1], platform |-> p[1], month |-> p[2],
           config |-> p[3][3]]]

\* pd.concat(platform_stats_list, ignore_index=True)
RECURSIVE concat(_)
concat(frames) ==
    IF frames = << >> THEN << >>
    ELSE Head(frames) \o concat(Tail(frames))

\* the orders in which the file system may yield the files of S
Orders(S) ==
    {o \in [1..Cardinality(S) -> S] : \A i, j \in DOMAIN o :
                                        i # j => o[i] # o[j]}

InitStats ==
    /\ FirstRun
    /\ script = GetStats
    /\ arg = "absent"
    /\ children = {}
    /\ files = << >>
    /\ dirs = {}
    /\ errored_scenes = << >>
    /\ metadata = << >>
    /\ errored_xml = << >>
    /\ pc = "idle"
    /\ todoFolders = {}
    /\ cur = NoName
    /\ todoScenes = {}
    /\ calls = EmptyBag
    /\ last = Event("none", NoName, NoScene)
    /\ listed = FALSE
    /\ exc = ""
    /\ ret = NoRet
    /\ WrapperIdle
    /\ DownloadIdle
    /\ sat_dirs \in SUBSET SatNames
    /\ year_dirs \in SUBSET sat_dirs
    /\ \E ps \in Bounded(year_dirs \X Months \X StatStems, MaxStats) :
       \E old \in SUBSET year_dirs :
       \E t \in [ps -> Tables] :
         gpkg = [p \in ps \cup {PlatformStats(sat) : sat \in old} |->
                   IF p \in ps THEN t[p] ELSE StaleTable]

\* data_dir.iterdir()
StatsStart ==
    /\ pc = "idle"
    /\ script = GetStats
    /\ listed' = TRUE
    /\ todoFolders' = sat_dirs
    /\ pc' = NextPc(sat_dirs, {})
    /\ calls' = EmptyBag
    /\ last' = Event("start", NoName, NoScene)
    /\ UNCHANGED runVars
    /\ UNCHANGED <<script, arg, children, files, dirs, errored_scenes,
                   metadata, errored_xml, cur, todoScenes, exc, ret, toolVars>>

\* a child of data_dir without <year> is passed over
StatsNoYear ==
    /\ pc = "folders"
    /\ script = GetStats
    /\ \E sat \in todoFolders :
         /\ sat \notin year_dirs
         /\ todoFolders' = todoFolders \ {sat}
         /\ pc' = NextPc(todoFolders', {})
         /\ last' = Event("no_year", sat, NoScene)
    /\ UNCHANGED runVars
    /\ UNCHANGED <<script, arg, children, files, dirs, errored_scenes,
                   metadata, errored_xml, cur, todoScenes, calls, listed,
                   exc, ret, toolVars>>

\* no statistics file below <year>: pd.concat of an empty list raises
StatsNothingToConcat ==
    /\ pc = "folders"
    /\ script = GetStats
    /\ \E sat \in todoFolders :
         /\ sat \in year_dirs
         /\ StatsGlob(gpkg, sat) = {}
         /\ todoFolders' = todoFolders \ {sat}
         /\ Raise("ValueError", "concat", sat, NoScene)
    /\ UNCHANGED runVars
    /\ UNCHANGED <<script, arg, children, files, dirs, errored_scenes,
                   metadata, errored_xml, cur, todoScenes, calls, listed,
                   ret, toolVars>>

\* the statistics files are read, concatenated and saved
StatsSave ==
    /\ pc = "folders"
    /\ script = GetStats
    /\ \E sat \in todoFolders :
         /\ sat \in year_dirs
         /\ StatsGlob(gpkg, sat) # {}
         /\ \E o \in Orders(StatsGlob(gpkg, sat)) :
              LET platform_stats ==
                      concat([i \in DOMAIN o |-> ReadStats(gpkg, o[i])])
              IN /\ gpkg' = Written(gpkg, {PlatformStats(sat)},
                                    platform_stats)
                 /\ calls' = calls (+)
                      SetToBag({[fn |-> "to_file",
                                 path |-> PlatformStats(sat),
                                 rows |-> platform_stats]})
         /\ todoFolders' = todoFolders \ {sat}
         /\ pc' = NextPc(todoFolders', {})
         /\ last' = Event("saved", sat, NoScene)
    /\ UNCHANGED runVars
    /\ UNCHANGED <<script, arg, children, files, dirs, errored_scenes,
                   metadata, errored_xml, cur, todoScenes, listed, exc, ret,
                   sat_dirs, year_dirs, wrapVars, loadVars>>

NextStats ==
    \/ StatsStart
    \/ StatsNoYear
    \/ StatsNothingToConcat
    \/ StatsSave

SpecStats == InitStats /\ [][NextStats]_vars

----------------------------------------------------------------------------
(* The decorator masked_array_to_ndarray of scripts/parcel_statistics.py   *)
(* and the two statistics it decorates.  An array is its type, the         *)
(* sequence of its values and, for a masked array, the sequence of its     *)
(* mask; the values are those of a float raster.                           *)

\* pixels of an array
MaxPixels == 2

\* the decorated statistics
Decorated == {"coefficient_of_variation", "entropy"}

Floats == {"1.0", "2.0", "nan"}
Data == UNION {[1..n -> Floats] : n \in 0..MaxPixels}

ndarray(d) == [type |-> "ndarray", data |-> d, mask |-> << >>]
MaskedArray(d, m) == [type |-> "MaskedArray", data |-> d, mask |-> m]
list(d) == [type |-> "list", data |-> d, mask |-> << >>]

\* first arguments of a call
Arrays ==
    {MaskedArray(d, m) : <<d, m>> \in
        UNION {{<<e, n>> : n \in [DOMAIN e -> BOOLEAN]} : e \in Data}}
    \cup {ndarray(d) : d \in Data}
    \cup {list(d) : d \in Data}

\* np.nan
nan == [of |-> "nan", on |-> << >>]

\* the value a statistic returns for an array
Statistic(func, x) == [of |-> func, on |-> x.data]

\* isinstance(x, np.ma.MaskedArray)
isinstance(x) == x.type = "MaskedArray"

\* x.filled(fill_value)
filled_data(x, fill_value) == ndarray(x.data)
filled(x, fill_value) ==
    ndarray([i \in DOMAIN x.data |->
               IF x.mask[i] THEN fill_value ELSE x.data[i]])

\* np.isnan(x)
isnan(x) == [i \in DOMAIN x.data |-> x.data[i] = "nan"]

\* b.all()
all(b) == \A i \in DOMAIN b : b[i]

\* wrapper(*args, **kwargs): the value returned and the calls of func
wrapper(func, as) ==
    LET x == as[1]
    IN IF isinstance(x)
       THEN LET y == filled(x, "nan")
            IN IF all(isnan(y))
               THEN [value |-> nan, calls |-> {}]
               ELSE [value |-> Statistic(func, y),
                     calls |-> {[fn |-> func, x |-> y]}]
       ELSE [value |-> Statistic(func, x),
             calls |-> {[fn |-> func, x |-> x]}]

InitWrapper ==
    /\ FirstRun
    /\ script \in Decorated
    /\ arg = "absent"
    /\ children = {}
    /\ files = << >>
    /\ dirs = {}
    /\ errored_scenes = << >>
    /\ metadata = << >>
    /\ errored_xml = << >>
    /\ pc = "idle"
    /\ todoFolders = {}
    /\ cur = NoName
    /\ todoScenes = {}
    /\ calls = EmptyBag
    /\ last = Event("none", NoName, NoScene)
    /\ listed = FALSE
    /\ exc = ""
    /\ ret = NoRet
    /\ StatsIdle
    /\ DownloadIdle
    /\ \E x \in Arrays : args \in {<<x>>, <<x, "axis">>}

\* a call of the decorated statistic
WrapperCall ==
    /\ pc = "idle"
    /\ script \in Decorated
    /\ LET w == wrapper(script, args)
       IN /\ ret' = Returned(w.value)
          /\ calls' = SetToBag(w.calls)
    /\ pc' = "done"
    /\ last' = Event("called", NoName, NoScene)
    /\ UNCHANGED runVars
    /\ UNCHANGED <<script, arg, children, files, dirs, errored_scenes,
                   metadata, errored_xml, todoFolders, cur, todoScenes,
                   listed, exc, toolVars>>

NextWrapper == WrapperCall

SpecWrapper == InitWrapper /\ [][NextWrapper]_vars

----------------------------------------------------------------------------
(* download_data of get_sat_data.py.  The working directory maps the names *)
(* of its entries to files (with their content) and directories (with      *)
(* their members, "old" or "new" as for the binary files above).  The      *)
(* body of a response is a zip archive with the names of its members, or   *)
(* something else.                                                         *)

\* members of an archive resp. of the data directory before the call
MaxMembers == 2

MemberNames == {"a.tif", "b.tif", "c.tif"}

Body(kind, names) == [kind |-> kind, names |-> names]
NoBody == Body("", {})

\* bodies: archives, a body of no bytes, the page of an error status
Archives == {Body("zip", ns) : ns \in Bounded(MemberNames, MaxMembers)}
Responses ==
    {[status_code |-> 200, content |-> b] :
        b \in Archives \cup {Body("empty", {})}}
    \cup {[status_code |-> 404, content |-> Body("html", {})]}

File(content) == [kind |-> "file", content |-> content, members |-> << >>]
Dir(members) == [kind |-> "dir", content |-> NoBody, members |-> members]

\* with open(filename, 'wb') as f: f.write(r.content)
write(d, name, content) == Written(d, {name}, File(content))

\* data_dir.mkdir(exist_ok=True): the directory tree afterwards, or the
\* exception when the entry exists and is no directory
mkdir_strict(d, name) ==
    IF name \in DOMAIN d THEN [raised |-> "FileExistsError", value |-> d]
    ELSE [raised |-> "", value |-> Written(d, {name}, Dir(<< >>))]
mkdir(d, name) ==
    IF name \notin DOMAIN d
    THEN [raised |-> "", value |-> Written(d, {name}, Dir(<< >>))]
    ELSE IF d[name].kind = "dir"
         THEN [raised |-> "", value |-> d]
         ELSE [raised |-> "FileExistsError", value |-> d]

\* zipfile.ZipFile(filename, 'r') and zip_ref.extractall(data_dir)
extractall(d, name, into) ==
    IF d[name].content.kind # "zip"
    THEN [raised |-> "BadZipFile", value |-> d]
    ELSE [raised |-> "",
          value |-> Written(d, {into},
                            Dir(Written(d[into].members,
                                        d[name].content.names, "new")))]

\* download_data(url, filename): the exception that ends the call, if any,
\* and the working directory afterwards
download_data(r, fname, d) ==
    LET saved == write(d, fname, r.content)
        made  == mkdir(saved, "data")
    IN IF made.raised # "" THEN made
       ELSE extractall(made.value, fname, "data")

InitDownload ==
    /\ FirstRun
    /\ script = "download_data"
    /\ arg = "absent"
    /\ children = {}
    /\ files = << >>
    /\ dirs = {}
    /\ errored_scenes = << >>
    /\ metadata = << >>
    /\ errored_xml = << >>
    /\ pc = "idle"
    /\ todoFolders = {}
    /\ cur = NoName
    /\ todoScenes = {}
    /\ calls = EmptyBag
    /\ last = Event("none", NoName, NoScene)
    /\ listed = FALSE
    /\ exc = ""
    /\ ret = NoRet
    /\ StatsIdle
    /\ WrapperIdle
    /\ response \in Responses
    /\ filename = "planetscope.zip"
    /\ \E zs \in SUBSET {File(Body("html", {})), File(Body("empty", {})),
                          File(Body("zip", {"a.tif"}))} :
       \E ds \in SUBSET ({File(Body("empty", {}))} \cup
                          {Dir([n \in ns |-> "old"]) :
                             ns \in Bounded(MemberNames, MaxMembers)}) :
         /\ Cardinality(zs) <= 1
         /\ Cardinality(ds) <= 1
         /\ cwd = [n \in {filename : z \in zs} \cup {"data" : e \in ds} |->
                     IF n = filename THEN CHOOSE z \in zs : TRUE
                     ELSE CHOOSE e \in ds : TRUE]

\* a call of download_data
DownloadCall ==
    /\ pc = "idle"
    /\ script = "download_data"
    /\ LET r == download_data(response, filename, cwd)
       IN /\ cwd' = r.value
          /\ exc' = r.raised
          /\ pc' = IF r.raised = "" THEN "done" ELSE "raised"
    /\ calls' = SetToBag({[fn |-> "requests.get"]})
    /\ last' = Event("called", NoName, NoScene)
    /\ UNCHANGED runVars
    /\ UNCHANGED <<script, arg, children, files, dirs, errored_scenes,
                   metadata, errored_xml, todoFolders, cur, todoScenes,
                   listed, ret, statsVars, wrapVars, response, filename>>

NextDownload == DownloadCall

SpecDownload == InitDownload /\ [][NextDownload]_vars

----------------------------------------------------------------------------
(* Properties of the LAI retrieval scripts *)

\* the files below the lai directories
LaiFiles(f) == [p \in {q \in DOMAIN f : q[2] = "lai"} |-> f[p]]

\* the GeoTiff of a scene under the configuration the call selects
SelectedTif(folder, stem) ==
    <<folder, "lai",
      FName(stem, IF script # PsLai THEN "_lai.tif"
                  ELSE IF arg = "eight" THEN "_lai_8bands.tif"
                  ELSE "_lai_4bands.tif")>>
SelectedPng(folder, stem) ==
    <<folder, "lai",
      FName(stem, IF script # PsLai THEN "_lai.png"
                  ELSE IF arg = "eight" THEN "_lai_8bands.png"
                  ELSE "_lai_4bands.png")>>
OtherTif(folder, stem) ==
    <<folder, "lai",
      FName(stem, IF arg = "eight" THEN "_lai_4bands.tif"
                  ELSE "_lai_8bands.tif")>>

\* the LUT the scripts look up for a scene
SceneLut(folder, stem) ==
    <<folder, "lut",
      IF script = S2Lai THEN FName(<<stem[1], "MTD", "TL">>, ".pkl")
      ELSE FName(stem, ".pkl")>>

\* the lines of errored_scenes.txt of a folder, << >> if there is no file
ErroredLines(e, folder) == IF folder \in DOMAIN e THEN e[folder] ELSE << >>

\* the scene the step visits
VisitsScene(stem) ==
    pc = "scenes" /\ stem \in todoScenes /\ stem \notin todoScenes'

\* C1: a scene whose output GeoTiff exists when it is visited is skipped:
\* no call of inv_img or retrieve_traits is made and nothing below the lai
\* directory (GeoTiff, PNG, errored_scenes.txt) is created or modified,
\* whether or not its LUT exists.
C1_ExistingOutputSkipped ==
    [][\A stem \in todoScenes :
          (VisitsScene(stem) /\ SelectedTif(cur, stem) \in DOMAIN files)
          => /\ calls' = calls
             /\ LaiFiles(files') = LaiFiles(files)
             /\ errored_scenes' = errored_scenes
             /\ dirs' = dirs]_vars

C1_Witness ==
    /\ last.op = "skip_existing"
    /\ SelectedTif(last.folder, last.scene) \in DOMAIN files
    /\ SceneLut(last.folder, last.scene) \notin DOMAIN files

\* the naming convention of the comment above the folder loop: two digits,
\* an underscore and three letters
Convention(name) ==
    /\ Len(name) >= 6
    /\ name[1] \in Digits /\ name[2] \in Digits
    /\ name[3] = "_"
    /\ \A i \in 4..6 : name[i] \in Letters

\* C3: a child of `path` is entered if and only if its name starts with two
\* digits followed by an underscore and three letters.
C3_EnteredIffConvention ==
    /\ last.op = "folder_entered" => Convention(last.folder)
    /\ last.op = "folder_skipped" => ~Convention(last.folder)

\* C4: with four_or_eight_bands other than 'four' and 'eight' the scripts
\* version of lai_retrieval_planetscope raises ValueError before it lists
\* or creates a directory or writes a file.
C4_BadArgumentRaisesFirst ==
    (script = PsLai /\ arg \notin {"absent", "four", "eight"})
    => /\ pc \in {"idle", "raised"}
       /\ pc = "raised" => exc = "ValueError"
       /\ ~listed
       /\ calls = EmptyBag
       /\ \A p \in DOMAIN files : files[p] = "old"
       /\ dirs = {<<p[1], p[2]>> : p \in DOMAIN files}
       /\ errored_scenes = << >>

C4_Witness ==
    /\ script = PsLai /\ arg = "None"
    /\ pc = "raised" /\ exc = "ValueError"
    /\ \E c \in children : c.isDir /\ Convention(c.name)
                           /\ <<c.name, "lai">> \notin dirs

\* C5: without the argument the call behaves as with 'four' (LUT columns
\* B2, B4, B6, B8 against blue, green, red, nir; files _lai_4bands), with
\* 'eight' all eight bands are used (files _lai_8bands); a scene is skipped
\* on the GeoTiff of the selected configuration only.
C5_SelectedConfiguration ==
    (script = PsLai /\ arg \in {"absent", "four", "eight"})
    => /\ \A c \in BagToSet(calls) :
            c.fn = "inv_img"
            => IF arg = "eight"
               THEN /\ c.lut = <<"B1", "B2", "B3", "B4",
                                 "B5", "B6", "B7", "B8">>
                    /\ c.img = <<"coastal_blue", "blue", "green_i", "green",
                                 "yellow", "red", "red_edge", "nir">>
               ELSE /\ c.lut = <<"B2", "B4", "B6", "B8">>
                    /\ c.img = <<"blue", "green", "red", "nir">>
       /\ last.op = "inverted"
          => /\ SelectedTif(last.folder, last.scene) \in DOMAIN files
             /\ SelectedPng(last.folder, last.scene) \in DOMAIN files
             /\ files[SelectedTif(last.folder, last.scene)] = "new"
             /\ files[SelectedPng(last.folder, last.scene)] = "new"
             /\ OtherTif(last.folder, last.scene) \in DOMAIN files
                => files[OtherTif(last.folder, last.scene)] = "old"
       /\ last.op = "skip_existing"
          => SelectedTif(last.folder, last.scene) \in DOMAIN files
       /\ last.op = "no_lut"
          => SelectedTif(last.folder, last.scene) \notin DOMAIN files

C5_Witness ==
    /\ script = PsLai /\ arg = "absent"
    /\ last.op = "inverted"
    /\ files[SelectedTif(last.folder, last.scene)] = "new"
    /\ OtherTif(last.folder, last.scene) \in DOMAIN files
    /\ BagToSet(calls) # {}

\* what C6 asks of the visit of a scene
ReportedOnce(stem) ==
    /\ files' = files
    /\ errored_scenes' =
         [f \in DOMAIN errored_scenes \cup {cur} |->
            IF f = cur
            THEN ErroredLines(errored_scenes, cur) \o <<FName(stem, ".tif")>>
            ELSE errored_scenes[f]]
    /\ <<cur, "lai/errored_scenes">> \in dirs'
    /\ calls' = calls
    /\ pc' # "raised"
    /\ todoScenes' = todoScenes \ {stem}
    /\ todoFolders' = todoFolders

\* C6 as stated: every scene without output GeoTiff and without LUT gets
\* no GeoTiff and no PNG and exactly one line in errored_scenes.txt, and
\* the loops go on.
C6_MissingLutReported ==
    [][\A stem \in todoScenes :
          (/\ VisitsScene(stem)
           /\ SelectedTif(cur, stem) \notin DOMAIN files
           /\ SceneLut(cur, stem) \notin DOMAIN files)
          => ReportedOnce(stem)]_vars

\* C6, amended: as C6, for the scenes the script considers at all; the
\* Sentinel-2 script considers the scenes whose stem ends in _10m or _20m.
C6_MissingLutReportedKnownResolution ==
    [][\A stem \in todoScenes :
          (/\ VisitsScene(stem)
           /\ script = S2Lai => stem[Len(stem)] \in {"10m", "20m"}
           /\ SelectedTif(cur, stem) \notin DOMAIN files
           /\ SceneLut(cur, stem) \notin DOMAIN files)
          => ReportedOnce(stem)]_vars

C6_Witness ==
    /\ last.op = "no_lut"
    /\ ErroredLines(errored_scenes, last.folder) # << >>
    /\ SelectedTif(last.folder, last.scene) \notin DOMAIN files
    /\ SelectedPng(last.folder, last.scene) \notin DOMAIN files
    /\ todoScenes # {}
    /\ todoFolders # {}

----------------------------------------------------------------------------
(* Properties of parse_metadata_xml *)

AngleKeys == {"viewing_zenith_angle", "relative_azimuth_angle",
              "sun_elevation"}

TagOf(key) ==
    CASE key = "viewing_zenith_angle" -> "ps:spaceCraftViewAngle"
      [] key = "relative_azimuth_angle" -> "ps:azimuthAngle"
      [] key = "sun_elevation" -> "opt:illuminationElevationAngle"

\* the document has a first ps:Acquisition in its first
\* eop:acquisitionParameters
HasAcquisition(d) ==
    /\ d.wellformed
    /\ Len(d.acquisitionParameters) > 0
    /\ Len(d.acquisitionParameters[1]) > 0

\* the first element with the tag of `key` inside that ps:Acquisition is
\* there and has text
HasText(d, key) ==
    LET es == d.acquisitionParameters[1][1][TagOf(key)]
    IN /\ Len(es) > 0
       /\ Len(es[1]) > 0
       /\ es[1][1].kind = "text"

TextOf(d, key) == d.acquisitionParameters[1][1][TagOf(key)][1][1]

\* C8: the returned dictionary has exactly the keys viewing_zenith_angle,
\* relative_azimuth_angle and sun_elevation, each with the float of the text
\* of the first element of its tag in the first ps:Acquisition of the first
\* eop:acquisitionParameters; when one of these elements is missing or has
\* no text the call raises and returns nothing.
C8_AnglesOfFirstElements ==
    (script = "parse_metadata_xml" /\ pc # "idle")
    => LET d == metadata[TheFile]
       IN /\ ret.raised = ""
             => /\ DOMAIN ret.value = AngleKeys
                /\ HasAcquisition(d)
                /\ \A k \in AngleKeys :
                     /\ HasText(d, k)
                     /\ ret.value[k] = float(TextOf(d, k)).value
          /\ (~HasAcquisition(d) \/ \E k \in AngleKeys : ~HasText(d, k))
             => (ret.raised # "" /\ ret.value = NoDict)
          /\ (HasAcquisition(d) /\ \A k \in AngleKeys :
                 HasText(d, k) /\ float(TextOf(d, k)).raised = "")
             => ret.raised = ""

C8_Witness ==
    /\ script = "parse_metadata_xml" /\ pc = "done"
    /\ Len(metadata[TheFile].acquisitionParameters) = 2
    /\ Len(metadata[TheFile].acquisitionParameters[1]) = 2
    /\ \A k \in AngleKeys :
         Len(metadata[TheFile].acquisitionParameters[1][1][TagOf(k)]) = 2
    /\ ret.value["viewing_zenith_angle"] = 10
    /\ ret.value["relative_azimuth_angle"] = 25
    /\ ret.value["sun_elevation"] = 60

----------------------------------------------------------------------------
(* Properties of the LUT generation scripts *)

\* the LUT of a metadata file
PklOf(folder, stem) == <<folder, "lut", FName(stem, ".pkl")>>

\* the metadata file can be parsed by the parser of the script
Parses(d) ==
    IF script = S2Rtm THEN d.wellformed
    ELSE /\ HasAcquisition(d)
         /\ \A k \in AngleKeys :
              HasText(d, k) /\ float(TextOf(d, k)).raised = ""

GenerateLutCalls(c, folder, stem) ==
    {x \in BagToSet(c) :
       x.fn = "generate_lut" /\ x.folder = folder /\ x.scene = stem}
ParserCalls(c, folder, stem) ==
    {x \in BagToSet(c) :
       x.fn \in {"parse_metadata_xml", "parse_MTD_TL"}
       /\ x.folder = folder /\ x.scene = stem}

\* the visit of a metadata file whose LUT exists changes nothing
SkippedUnparsed(stem) ==
    /\ calls' = calls
    /\ files' = files
    /\ metadata' = metadata
    /\ errored_xml' = errored_xml
    /\ pc' # "raised"

\* the visit of a metadata file writes its LUT and nothing else
WritesOnePkl(stem) ==
    /\ DOMAIN files' = DOMAIN files \cup {PklOf(cur, stem)}
    /\ files'[PklOf(cur, stem)] = "new"
    /\ \A p \in DOMAIN files : files'[p] = files[p]
    /\ Cardinality(GenerateLutCalls(calls', cur, stem)) = 1
    /\ CopiesIn(CHOOSE x \in GenerateLutCalls(calls', cur, stem) : TRUE,
                calls') = 1

\* C2 as stated: a metadata file whose LUT exists is skipped unparsed and
\* the LUT is left as it is; for every other metadata file that parses,
\* exactly one file lut/<stem>.pkl is written.
C2_SkipOrWriteOnePkl ==
    [][\A stem \in todoScenes :
          (VisitsScene(stem) /\ script \in ProsailScripts)
          => /\ PklOf(cur, stem) \in DOMAIN files => SkippedUnparsed(stem)
             /\ (PklOf(cur, stem) \notin DOMAIN files
                 /\ Parses(metadata[<<cur, stem>>]))
                => WritesOnePkl(stem)]_vars

\* the platform of the tile is one run_prosail_sentinel2 knows
KnownPlatform(d) ==
    script = S2Rtm => d.entries["SCENE_ID"][1] \in {"S2A", "S2B"}

\* C2, amended: as C2, where for run_prosail_sentinel2 the metadata file
\* that parses also names the platform S2A or S2B in its SCENE_ID.
C2_SkipOrWriteOnePklKnownPlatform ==
    [][\A stem \in todoScenes :
          (VisitsScene(stem) /\ script \in ProsailScripts)
          => /\ PklOf(cur, stem) \in DOMAIN files => SkippedUnparsed(stem)
             /\ (/\ PklOf(cur, stem) \notin DOMAIN files
                 /\ Parses(metadata[<<cur, stem>>])
                 /\ KnownPlatform(metadata[<<cur, stem>>]))
                => WritesOnePkl(stem)]_vars

C2_Witness ==
    /\ script \in ProsailScripts
    /\ last.op = "skip_existing"
    /\ files[PklOf(last.folder, last.scene)] = "old"
    /\ ParserCalls(calls, last.folder, last.scene) = {}
    /\ \E p \in DOMAIN files : files[p] = "new"

\* C7: in scripts/run_prosail_planetscope.py a metadata file the parser
\* raises on is moved from metadata/ to metadata/errored_xml/ (created if
\* absent), no LUT is written and generate_lut is not called for it, the
\* run goes on with the remaining metadata files, and no run visits a file
\* of errored_xml.
C7_ErroredXmlMoved ==
    [][\A stem \in todoScenes :
          (VisitsScene(stem) /\ script = PsRtm)
          => /\ <<cur, stem>> \notin DOMAIN errored_xml
             /\ (PklOf(cur, stem) \notin DOMAIN files
                 /\ ~Parses(metadata[<<cur, stem>>]))
                => /\ <<cur, stem>> \notin DOMAIN metadata'
                   /\ <<cur, stem>> \in DOMAIN errored_xml'
                   /\ errored_xml'[<<cur, stem>>] = metadata[<<cur, stem>>]
                   /\ \A k \in DOMAIN metadata \ {<<cur, stem>>} :
                        k \in DOMAIN metadata' /\ metadata'[k] = metadata[k]
                   /\ \A k \in DOMAIN errored_xml :
                        errored_xml'[k] = errored_xml[k]
                   /\ <<cur, "metadata/errored_xml">> \in dirs'
                   /\ files' = files
                   /\ GenerateLutCalls(calls', cur, stem) = {}
                   /\ pc' # "raised"
                   /\ todoScenes' = todoScenes \ {stem}
                   /\ todoFolders' = todoFolders]_vars

C7_Witness ==
    /\ script = PsRtm
    /\ last.op = "folder_entered"
    /\ todoScenes # {}
    /\ \E k \in DOMAIN errored_xml :
         /\ k[1] = last.folder
         /\ k \notin DOMAIN metadata
         /\ PklOf(k[1], k[2]) \notin DOMAIN files
    /\ <<last.folder, "metadata/errored_xml">> \in dirs

\* C10: generate_lut of a PlanetScope scene gets exactly the three angles
\* viewing_zenith_angle and relative_azimuth_angle as parsed and
\* solar_zenith_angle = 90 - sun_elevation, and no sun_elevation.
C10_SolarZenithFromElevation ==
    script \in {PsRtm, PsRtm0}
    => \A c \in BagToSet(calls) :
         c.fn = "generate_lut"
         => LET d == metadata[<<c.folder, c.scene>>]
            IN /\ DOMAIN c.angles = {"viewing_zenith_angle",
                                     "relative_azimuth_angle",
                                     "solar_zenith_angle"}
               /\ c.angles["viewing_zenith_angle"] =
                    float(TextOf(d, "viewing_zenith_angle")).value
               /\ c.angles["relative_azimuth_angle"] =
                    float(TextOf(d, "relative_azimuth_angle")).value
               /\ c.angles["solar_zenith_angle"] =
                    90 - float(TextOf(d, "sun_elevation")).value

C10_Witness ==
    /\ script \in {PsRtm, PsRtm0}
    /\ last.op = "lut_written"
    /\ \E c \in BagToSet(calls) :
         /\ c.fn = "generate_lut"
         /\ c.angles["viewing_zenith_angle"] = 10
         /\ c.angles["relative_azimuth_angle"] = 25
         /\ c.angles["solar_zenith_angle"] = 30

(***************************************************************************)
(* Properties of the saved GeoTiff                                          *)
(***************************************************************************)

\* the band names of a collection
BandNames(c) == {c[i] : i \in DOMAIN c}

\* C11: for every scene that is inverted, the GeoTiff that is saved holds
\* the LAI together with three cost function values of the selected LUT
\* solutions, the lowest, the median and the highest one.
C11_LowestMedianHighestSaved ==
    script \in LaiScripts
    => \A c \in BagToSet(calls) :
         c.fn = "to_rasterio"
         => /\ "lai" \in BandNames(c.img)
            /\ "lowest_cost_function_value" \in BandNames(c.img)
            /\ "highest_cost_function_value" \in BandNames(c.img)
            /\ Cardinality(BandNames(c.img) \ {"lai"}) = 3

\* the calls of inv_img made for a scene
InvImgCalls(b, folder, stem) ==
    {c \in BagToSet(b) :
       c.fn = "inv_img" /\ c.folder = folder /\ c.scene = stem}

\* C12: lai_retrieval_sentinel2 inverts a scene whose stem ends in _10m
\* against the LUT columns B02, B03, B04, B08 and a scene whose stem ends in
\* _20m against B05, B06, B07, B8A, B11, B12 (one call of inv_img when the
\* scene has no output and its LUT exists); a scene whose last stem token
\* is anything else is skipped: no call, no file written, no directory
\* created, no line in errored_scenes.txt, and the loop goes on.
C12_BandsOfResolution ==
    [][script = S2Lai
       => \A stem \in todoScenes :
            VisitsScene(stem)
            => LET inv == InvImgCalls(calls', cur, stem)
                   res == LastToken(stem)
               IN /\ res = "10m"
                     => \A c \in inv : c.lut = <<"B02", "B03", "B04", "B08">>
                  /\ res = "20m"
                     => \A c \in inv : c.lut = <<"B05", "B06", "B07",
                                                 "B8A", "B11", "B12">>
                  /\ (/\ res \in {"10m", "20m"}
                      /\ SelectedTif(cur, stem) \notin DOMAIN files
                      /\ SceneLut(cur, stem) \in DOMAIN files)
                     => /\ Cardinality(inv) = 1
                        /\ \A c \in inv : CopiesIn(c, calls') = 1
                        /\ files'[SelectedTif(cur, stem)] = "new"
                  /\ res \notin {"10m", "20m"}
                     => /\ calls' = calls
                        /\ files' = files
                        /\ dirs' = dirs
                        /\ errored_scenes' = errored_scenes
                        /\ pc' # "raised"
                        /\ todoFolders' = todoFolders]_vars

C12_Witness ==
    /\ script = S2Lai
    /\ last.op = "skip_resolution"
    /\ LastToken(last.scene) = "60m"
    /\ SelectedTif(last.folder, last.scene) \notin DOMAIN files
    /\ SceneLut(last.folder, last.scene) \in DOMAIN files
    /\ last.folder \notin DOMAIN errored_scenes
    /\ \E c \in BagToSet(calls) :
         /\ c.fn = "inv_img" /\ c.folder = last.folder
         /\ LastToken(c.scene) = "20m"
         /\ c.lut = s2_bands_20m

(***************************************************************************)
(* Properties of get_parcel_statistics                                     *)
(***************************************************************************)

\* the calls of to_file on the statistics file of a platform
ToFileCalls(sat) ==
    {c \in BagToSet(calls) :
       c.fn = "to_file" /\ c.path = PlatformStats(sat)}

\* the rows of a table
RowsOf(t) == {t[i] : i \in DOMAIN t}

\* the tagged rows with count > 0 of the statistics files of a platform
CollectedRows(sat) ==
    UNION {RowsOf(ReadStats(gpkg, p)) : p \in StatsGlob(gpkg, sat)}

\* C13: when get_parcel_statistics has ended, every child of data_dir that
\* has a <year> subdirectory got exactly one parcel_statistics.gpkg
\* written, whose rows are the rows with count > 0 of the
\* <month>/lai/*_parcel_stats.gpkg files of that platform, each once and
\* tagged with scene, platform, month and config, and no other row.
C13_OneFilePerPlatform ==
    (script = GetStats /\ pc \in {"done", "raised"})
    => \A sat \in year_dirs :
         /\ Cardinality(ToFileCalls(sat)) = 1
         /\ \A c \in ToFileCalls(sat) :
              /\ CopiesIn(c, calls) = 1
              /\ gpkg[PlatformStats(sat)] = c.rows
              /\ RowsOf(c.rows) = CollectedRows(sat)
              /\ Cardinality(RowsOf(c.rows)) = Len(c.rows)

(***************************************************************************)
(* Properties of masked_array_to_ndarray                                   *)
(***************************************************************************)

\* the values of the first argument with the masked ones replaced by NaN
NanFilled(x) ==
    [i \in DOMAIN x.data |->
       IF x.type = "MaskedArray" /\ x.mask[i] THEN "nan" ELSE x.data[i]]

\* C14: when the first argument is a MaskedArray whose NaN-filled form is
\* all NaN, the decorated statistic returns NaN and the wrapped statistic
\* is not called; otherwise the wrapped statistic is called exactly once,
\* on the NaN-filled plain array for a MaskedArray and on the unchanged
\* argument for any other input.
C14_NanWithoutCallElseOneCall ==
    (script \in Decorated /\ pc = "done")
    => LET x == args[1]
       IN IF /\ x.type = "MaskedArray"
             /\ \A i \in DOMAIN x.data : NanFilled(x)[i] = "nan"
          THEN /\ ret.value = nan
               /\ ret.raised = ""
               /\ calls = EmptyBag
          ELSE \E c \in BagToSet(calls) :
                 /\ calls = SetToBag({c})
                 /\ c.fn = script
                 /\ c.x = IF x.type = "MaskedArray"
                          THEN [type |-> "ndarray", data |-> NanFilled(x),
                                mask |-> << >>]
                          ELSE x

C14_Witness ==
    /\ script = "entropy"
    /\ pc = "done"
    /\ args[1].type = "MaskedArray"
    /\ args[1].data = <<"nan", "1.0">>
    /\ args[1].mask = <<FALSE, TRUE>>
    /\ ret.value = nan
    /\ calls = EmptyBag

(***************************************************************************)
(* Properties of download_data                                             *)
(***************************************************************************)

\* the members of the data directory, none if it does not exist
DataMembers(d) == IF "data" \in DOMAIN d THEN d["data"].members ELSE << >>

\* C15: when <cwd>/data is absent or a directory, download_data saves the
\* body of the response to `filename`, leaves a directory <cwd>/data
\* (created when absent, an existing one is no error) and no other entry
\* changed; a body that is a zip archive is extracted into <cwd>/data and
\* the call returns, any other body makes the call raise BadZipFile with
\* the file `filename` and the data directory left on disk, nothing
\* extracted.
C15_SavedThenUnzippedOrRaised ==
    [][(/\ script = "download_data"
        /\ pc = "idle"
        /\ ("data" \in DOMAIN cwd => cwd["data"].kind = "dir"))
       => /\ DOMAIN cwd' = DOMAIN cwd \cup {filename, "data"}
          /\ cwd'[filename].kind = "file"
          /\ cwd'[filename].content = response.content
          /\ cwd'["data"].kind = "dir"
          /\ IF response.content.kind = "zip"
             THEN /\ pc' = "done"
                  /\ exc' = ""
                  /\ DOMAIN DataMembers(cwd') =
                       DOMAIN DataMembers(cwd) \cup response.content.names
                  /\ \A n \in DOMAIN DataMembers(cwd') :
                       DataMembers(cwd')[n] =
                         IF n \in response.content.names THEN "new"
                         ELSE DataMembers(cwd)[n]
             ELSE /\ pc' = "raised"
                  /\ exc' = "BadZipFile"
                  /\ DataMembers(cwd') = DataMembers(cwd)]_vars

C15_Witness ==
    /\ script = "download_data"
    /\ pc = "raised"
    /\ exc = "BadZipFile"
    /\ response.status_code = 404
    /\ cwd[filename] = File(response.content)
    /\ cwd["data"] = Dir([n \in {"a.tif"} |-> "old"])

(***************************************************************************)
(* Properties of repeated calls                                            *)
(***************************************************************************)

\* C16: when a call of a LUT generation script or of an LAI retrieval
\* script completed and every scene it visited had its metadata parsed
\* resp. its LUT present, the next call of the script with the same
\* arguments calls neither generate_lut nor inv_img, changes no file and
\* no directory below `path`, and completes.
C16_SecondRunChangesNothing ==
    [][(/\ script \in LaiScripts \cup ProsailScripts
        /\ prevClean
        /\ pc \in {"idle", "folders", "scenes"})
       => /\ files' = files
          /\ dirs' = dirs
          /\ errored_scenes' = errored_scenes
          /\ metadata' = metadata
          /\ errored_xml' = errored_xml
          /\ \A c \in BagToSet(calls') :
               c.fn \notin {"generate_lut", "inv_img"}
          /\ pc' # "raised"
          /\ missed' = FALSE]_vars

C16_Witness ==
    /\ prevClean
    /\ pc = "done"
    /\ last.op = "skip_existing"
    /\ calls = EmptyBag
    /\ \E p \in DOMAIN files :
         /\ p[1] = last.folder
         /\ p[2] \in {"lai", "lut"}
         /\ files[p] = "old"

====
